---- MODULE Spec2Model ----
(***************************************************************************)
(* Stop lifecycle of the trip-itinerary tracker (component App).           *)
(*                                                                         *)
(* The state is the React state of App (stops, aiTips, isLoadingTips,      *)
(* hasNewTips), the localStorage entry "tourmate_stops", the advisory      *)
(* requests in flight, and React's own bookkeeping for the stops state:    *)
(* the queued setStops update and whether the save effect of the last      *)
(* committed render still has to run.  Presentation-only state (isAdding,  *)
(* activeTab, currentTime, isTipsModalOpen) never feeds back into the      *)
(* stop collection and is left out.                                        *)
(***************************************************************************)
EXTENDS Integers, Sequences, FiniteSets, TLC

\* ------------------------------------------------------------------------
\* Bounds of the model
\* ------------------------------------------------------------------------
\* user operations (addStop, toggleStatus, deleteStop) per session
MaxOps == 2

\* ------------------------------------------------------------------------
\* Program constants
\* ------------------------------------------------------------------------
\* if (stops.length > 10)
MaxStops == 10

\* the three fixed messages of generateTips, and the initial aiTips
NoTips == [text |-> "", about |-> <<>>]
Placeholder == [text |-> "Tambahkan beberapa tujuan untuk mendapatkan tips", about |-> <<>>]
EmptyTextFallback == [text |-> "Gunakan Google Maps untuk navigasi terbaik", about |-> <<>>]
ErrorFallback == [text |-> "Gunakan Google Maps untuk informasi lalu lintas", about |-> <<>>]

\* ------------------------------------------------------------------------
\* Values
\* ------------------------------------------------------------------------
NoUpdate == [queued |-> FALSE]
Absent == [kind |-> "absent"]
EmptyText == [kind |-> "text", wellFormed |-> FALSE, empty |-> TRUE]
Garbage == [kind |-> "text", wellFormed |-> FALSE, empty |-> FALSE]
StopStatus == {"planned", "visited", "skipped"}
StopKeys == {"id", "title", "address", "dateTime", "notes", "cost", "status", "order"}

\* ------------------------------------------------------------------------
\* Pure helpers
\* ------------------------------------------------------------------------
\* Number(formData.get('cost')): the text of a number input
ToNumber(text) ==
    CASE text = "" -> [nan |-> FALSE, n |-> 0]
      [] text = "0" -> [nan |-> FALSE, n |-> 0]
      [] text = "5" -> [nan |-> FALSE, n |-> 5]
      [] text = "20" -> [nan |-> FALSE, n |-> 20]
      [] text = "-3" -> [nan |-> FALSE, n |-> -3]
      [] OTHER -> [nan |-> TRUE, n |-> 0]

\* x || 0 for a number x
OrZero(x) == IF x.nan \/ x.n = 0 THEN 0 ELSE x.n

\* `${date}T${time}`
DateTimeOf(date, time) == <<date, "T", time>>

\* parseISO: minutes since the start of day 0
ParseISO(dateTime) == dateTime[1] * 1440 + dateTime[3]

\* compareAsc of date-fns
\* (faulty variant: the order of compareDesc)
CompareDesc(a, b) == IF a < b THEN 1 ELSE IF a > b THEN -1 ELSE 0
CompareAsc(a, b) == IF a < b THEN -1 ELSE IF a > b THEN 1 ELSE 0

CompareStops(a, b) == CompareAsc(ParseISO(a.dateTime), ParseISO(b.dateTime))

\* one step of a stable sort: s goes behind the elements of the sorted
\* front that do not compare greater than it
InsertStop(sorted, s) ==
    LET k == Cardinality({i \in 1..Len(sorted) : CompareStops(sorted[i], s) <= 0})
    IN SubSeq(sorted, 1, k) \o <<s>> \o SubSeq(sorted, k + 1, Len(sorted))

\* the first n elements of list, sorted; the sorted front and the element
\* to insert are bound as values before the insertion
RECURSIVE SortPrefix(_, _)
SortPrefix(list, n) ==
    IF n = 0 THEN <<>>
    ELSE CHOOSE result \in {InsertStop(front, s) :
                               front \in {SortPrefix(list, n - 1)}, s \in {list[n]}} : TRUE

\* Array.prototype.sort with the compareAsc comparator (stable)
SortStops(list) == SortPrefix(list, Len(list))

\* stops.filter(s => s.id !== id)
\* (faulty variant: splice at indexOf(id), which drops the last stop when
\* no stop matches)
FilterSplice(list, id) ==
    IF \E i \in 1..Len(list) : list[i].id = id
    THEN LET at == CHOOSE i \in 1..Len(list) : list[i].id = id
         IN SubSeq(list, 1, at - 1) \o SubSeq(list, at + 1, Len(list))
    ELSE SubSeq(list, 1, Len(list) - 1)
\* (faulty variant: the remaining stops are renumbered)
FilterRenumber(list, id) ==
    LET kept == {i \in 1..Len(list) : list[i].id # id}
        at(j) == CHOOSE i \in kept : Cardinality({m \in kept : m <= i}) = j
    IN [j \in 1..Cardinality(kept) |-> [list[at(j)] EXCEPT !.order = j - 1]]
RECURSIVE FilterOutId(_, _)
FilterOutId(list, id) ==
    IF list = <<>> THEN <<>>
    ELSE IF Head(list).id # id
         THEN <<Head(list)>> \o FilterOutId(Tail(list), id)
         ELSE FilterOutId(Tail(list), id)

\* JSON.stringify of one stop: the object's own properties as "key":value
\* members
\* (faulty variant: the order member is not written)
StringifyStopNoOrder(s) == {<<k, s[k]>> : k \in DOMAIN s \ {"order"}}
StringifyStop(s) == {<<k, s[k]>> : k \in DOMAIN s}

\* JSON.stringify(stops)
JsonStringify(list) ==
    [kind |-> "text", wellFormed |-> TRUE, empty |-> FALSE,
     doc |-> [i \in 1..Len(list) |-> StringifyStop(list[i])]]

\* one parsed object: a property for every member of the text
ParseStop(members) ==
    [k \in {m[1] : m \in members} |-> (CHOOSE m \in members : m[1] = k)[2]]

\* JSON.parse of a well-formed text
JsonParse(text) == [i \in 1..Len(text.doc) |-> ParseStop(text.doc[i])]

\* currentStops.map(s => `${s.title} (${s.address})`)
StopNames(list) == [i \in 1..Len(list) |-> <<list[i].title, list[i].address>>]

\* response.text of a successful advisory call for the given stop names
TipsFor(names) == [text |-> "tips", about |-> names]

\* ------------------------------------------------------------------------
\* Inputs
\* ------------------------------------------------------------------------
\* what the add form submits: title, address, date and time are required
\* inputs, cost is the text of a number input, notes a text input
Forms ==
    { [title |-> "Candi Borobudur", address |-> "Magelang", date |-> 1, time |-> 540,
       notes |-> "", cost |-> "5"],
      [title |-> "Pantai Kuta", address |-> "Bali", date |-> 0, time |-> 480,
       notes |-> "bawa kamera", cost |-> ""],
      [title |-> "Candi Borobudur", address |-> "Magelang", date |-> 2, time |-> 480,
       notes |-> "", cost |-> "-3"] }

\* a stop of an earlier session as it sits in storage; the Stop type makes
\* notes and cost optional
SavedStop(i) ==
    [k \in StopKeys \ (IF i % 4 = 0 THEN {"cost", "notes"} ELSE {}) |->
        CASE k = "id" -> <<"saved", i>>
          [] k = "title" -> IF i % 2 = 1 THEN "Malioboro" ELSE "Prambanan"
          [] k = "address" -> "Yogyakarta"
          [] k = "dateTime" -> DateTimeOf((i + 1) \div 4, 480)
          [] k = "notes" -> ""
          [] k = "cost" -> (i % 3) * 10
          [] k = "status" -> (IF i % 3 = 1 THEN "planned"
                              ELSE IF i % 3 = 2 THEN "visited" ELSE "skipped")
          [] k = "order" -> i - 1]

SavedStops(n) == [i \in 1..n |-> SavedStop(i)]

\* sizes of the stored collection at startup, up to one past the cap
SavedSizes == {0, 2, MaxStops, MaxStops + 1}

InitialStorage ==
    {Absent, EmptyText, Garbage} \cup {JsonStringify(SavedStops(n)) : n \in SavedSizes}

\* an id no stop carries: crypto.randomUUID() never returned it
UnknownId == <<"uuid", 0>>

\* ------------------------------------------------------------------------
\* State
\* ------------------------------------------------------------------------
VARIABLES
    stops,          \* useState<Stop[]>: the value the last committed render saw
    update,         \* the setStops call React has queued for the next render
    effectDue,      \* the [stops] effect of the last commit has not run yet
    pc,             \* "mount" before the load effect, then "ready" or "crashed"
    error,          \* the exception that escaped an effect, "" if none
    storage,        \* localStorage entry 'tourmate_stops'
    aiTips,         \* useState<string>
    isLoadingTips,  \* useState(false)
    hasNewTips,     \* useState(false)
    inFlight,       \* pending generateContent calls, in the order issued
    nextId,         \* how many ids crypto.randomUUID() has produced, plus one
    ops,            \* user operations so far
    last,           \* history: the last user operation, its arguments, the stop
                    \* count it found, and whether a reset has followed it
    settled         \* history: how many advisory calls have completed, the
                    \* names and outcome of the last one, and whether any call
                    \* completed while one issued before it was still pending

vars == <<stops, update, effectDue, pc, error, storage, aiTips, isLoadingTips,
          hasNewTips, inFlight, nextId, ops, last, settled>>

tipVars == <<aiTips, isLoadingTips, hasNewTips, inFlight>>

Init ==
    /\ stops = <<>>
    /\ update = NoUpdate
    /\ effectDue = TRUE
    /\ pc = "mount"
    /\ error = ""
    /\ storage \in InitialStorage
    /\ aiTips = NoTips
    /\ isLoadingTips = FALSE
    /\ hasNewTips = FALSE
    /\ inFlight = <<>>
    /\ nextId = 1
    /\ ops = 0
    /\ last = [op |-> "none", n |-> 0, id |-> UnknownId, forceStatus |-> "none",
               reset |-> FALSE]
    /\ settled = [count |-> 0, names |-> <<>>, outcome |-> "none", overtook |-> FALSE]

\* setStops(value)
SetStops(value) == [queued |-> TRUE, value |-> value]

\* generateTips up to its await
\* (faulty variant: no shortcut for an empty list)
GenerateTipsNoShortcut(currentStops) ==
    /\ isLoadingTips' = TRUE
    /\ inFlight' = Append(inFlight, StopNames(currentStops))
    /\ UNCHANGED <<aiTips, hasNewTips>>
\* (faulty variant: the request is built from the stops of the last render)
GenerateTipsStale(currentStops) ==
    IF Len(currentStops) = 0
    THEN /\ aiTips' = Placeholder
         /\ UNCHANGED <<isLoadingTips, hasNewTips, inFlight>>
    ELSE /\ isLoadingTips' = TRUE
         /\ inFlight' = Append(inFlight, StopNames(stops))
         /\ UNCHANGED <<aiTips, hasNewTips>>
GenerateTips(currentStops) ==
    IF Len(currentStops) = 0
    THEN /\ aiTips' = Placeholder
         /\ UNCHANGED <<isLoadingTips, hasNewTips, inFlight>>
    ELSE /\ isLoadingTips' = TRUE
         /\ inFlight' = Append(inFlight, StopNames(currentStops))
         /\ UNCHANGED <<aiTips, hasNewTips>>

\* generateTips from the await on: the call returns text, returns no text,
\* or throws
\* (faulty variant: once a request has completed ahead of an older one, the
\* results of the requests still pending are dropped)
TipsSettleSequenced(i, outcome) ==
    /\ i \in 1..Len(inFlight)
    /\ aiTips' = IF settled.overtook THEN aiTips
                 ELSE CASE outcome = "text" -> TipsFor(inFlight[i])
                        [] outcome = "empty" -> EmptyTextFallback
                        [] outcome = "error" -> ErrorFallback
    /\ hasNewTips' = IF outcome = "error" THEN hasNewTips ELSE TRUE
    /\ isLoadingTips' = FALSE
    /\ inFlight' = [j \in 1..(Len(inFlight) - 1) |->
                        IF j < i THEN inFlight[j] ELSE inFlight[j + 1]]
    /\ settled' = [count |-> settled.count + 1, names |-> inFlight[i],
                   outcome |-> outcome, overtook |-> settled.overtook \/ i > 1]
    /\ UNCHANGED <<stops, update, effectDue, pc, error, storage, nextId, ops, last>>
\* (faulty variant: no finally, a failed call leaves the loading flag set)
TipsSettleNoFinally(i, outcome) ==
    /\ i \in 1..Len(inFlight)
    /\ aiTips' = CASE outcome = "text" -> TipsFor(inFlight[i])
                    [] outcome = "empty" -> EmptyTextFallback
                    [] outcome = "error" -> ErrorFallback
    /\ hasNewTips' = IF outcome = "error" THEN hasNewTips ELSE TRUE
    /\ isLoadingTips' = IF outcome = "error" THEN isLoadingTips ELSE FALSE
    /\ inFlight' = [j \in 1..(Len(inFlight) - 1) |->
                        IF j < i THEN inFlight[j] ELSE inFlight[j + 1]]
    /\ settled' = [count |-> settled.count + 1, names |-> inFlight[i],
                   outcome |-> outcome, overtook |-> settled.overtook \/ i > 1]
    /\ UNCHANGED <<stops, update, effectDue, pc, error, storage, nextId, ops, last>>
TipsSettle(i, outcome) ==
    /\ i \in 1..Len(inFlight)
    /\ aiTips' = CASE outcome = "text" -> TipsFor(inFlight[i])
                    [] outcome = "empty" -> EmptyTextFallback
                    [] outcome = "error" -> ErrorFallback
    /\ hasNewTips' = IF outcome = "error" THEN hasNewTips ELSE TRUE
    /\ isLoadingTips' = FALSE
    /\ inFlight' = [j \in 1..(Len(inFlight) - 1) |->
                        IF j < i THEN inFlight[j] ELSE inFlight[j + 1]]
    /\ settled' = [count |-> settled.count + 1, names |-> inFlight[i],
                   outcome |-> outcome, overtook |-> settled.overtook \/ i > 1]
    /\ UNCHANGED <<stops, update, effectDue, pc, error, storage, nextId, ops, last>>

\* opening the tips clears the badge
ViewTips ==
    /\ pc = "ready"
    /\ hasNewTips
    /\ hasNewTips' = FALSE
    /\ UNCHANGED <<stops, update, effectDue, pc, error, storage, aiTips,
                   isLoadingTips, inFlight, nextId, ops, last, settled>>

\* the load effect of the mount
LoadData ==
    /\ pc = "mount"
    /\ IF storage.kind = "absent" \/ storage.empty
       THEN /\ pc' = "ready"
            /\ UNCHANGED <<update, error, tipVars>>
       ELSE IF ~storage.wellFormed
       THEN /\ pc' = "crashed"
            /\ error' = "SyntaxError"
            /\ UNCHANGED <<update, tipVars>>
       ELSE /\ update' = SetStops(JsonParse(storage))
            /\ GenerateTips(JsonParse(storage))
            /\ pc' = "ready"
            /\ UNCHANGED error
    /\ UNCHANGED <<stops, effectDue, storage, nextId, ops, last, settled>>

\* stops.length > 10
\* (faulty variant: the cap is noticed one stop late)
OverCapLate(list) == Len(list) > MaxStops + 1
OverCap(list) == Len(list) > MaxStops

\* the collection the reset puts in place: setStops([])
\* (faulty variant: the reset keeps the first 10 stops)
ResetKeepsCap(list) == SubSeq(list, 1, MaxStops)
ResetValue(list) == <<>>

\* the [stops] effect: save, or reset past the cap (after a blocking alert)
SaveEffect ==
    /\ pc # "mount"
    /\ effectDue
    /\ effectDue' = FALSE
    /\ IF OverCap(stops)
       THEN /\ update' = SetStops(ResetValue(stops))
            /\ storage' = Absent
            /\ last' = [last EXCEPT !.reset = TRUE]
       ELSE /\ storage' = JsonStringify(stops)
            /\ UNCHANGED <<update, last>>
    /\ UNCHANGED <<stops, pc, error, tipVars, nextId, ops, settled>>

\* React commits the queued state and schedules the effect that depends on it
Render ==
    /\ pc = "ready"
    /\ ~effectDue
    /\ update.queued
    /\ stops' = update.value
    /\ update' = NoUpdate
    /\ effectDue' = TRUE
    /\ UNCHANGED <<pc, error, storage, tipVars, nextId, ops, last, settled>>

\* the user can act once the last change is rendered and its effect has run
Idle == pc = "ready" /\ ~update.queued /\ ~effectDue

\* (faulty variant: the id is derived from the date input)
NewStopDateId(form) ==
    [id |-> <<"uuid", form.date>>,
     title |-> form.title,
     address |-> form.address,
     dateTime |-> DateTimeOf(form.date, form.time),
     notes |-> form.notes,
     cost |-> OrZero(ToNumber(form.cost)),
     status |-> "planned",
     order |-> Len(stops)]
\* (faulty variant: order counts from 1)
NewStopOneBased(form) ==
    [id |-> <<"uuid", nextId>>,
     title |-> form.title,
     address |-> form.address,
     dateTime |-> DateTimeOf(form.date, form.time),
     notes |-> form.notes,
     cost |-> OrZero(ToNumber(form.cost)),
     status |-> "planned",
     order |-> Len(stops) + 1]
NewStop(form) ==
    [id |-> <<"uuid", nextId>>,
     title |-> form.title,
     address |-> form.address,
     dateTime |-> DateTimeOf(form.date, form.time),
     notes |-> form.notes,
     cost |-> OrZero(ToNumber(form.cost)),
     status |-> "planned",
     order |-> Len(stops)]

AddStop(form) ==
    /\ Idle
    /\ ops < MaxOps
    /\ LET updatedStops == SortStops(Append(stops, NewStop(form)))
       IN /\ update' = SetStops(updatedStops)
          /\ GenerateTips(updatedStops)
    /\ nextId' = nextId + 1
    /\ ops' = ops + 1
    /\ last' = [op |-> "add", n |-> Len(stops), id |-> NewStop(form).id,
                forceStatus |-> "none", reset |-> FALSE]
    /\ UNCHANGED <<stops, effectDue, pc, error, storage, settled>>

\* forceStatus || (s.status === 'visited' ? 'planned' : 'visited')
\* (faulty variant: an unforced toggle sends skipped to planned)
NextStatusCycle(status, forceStatus) ==
    IF forceStatus # "none" THEN forceStatus
    ELSE IF status = "planned" THEN "visited" ELSE "planned"
NextStatus(status, forceStatus) ==
    IF forceStatus # "none" THEN forceStatus
    ELSE IF status = "visited" THEN "planned" ELSE "visited"

\* prev.map(...) of toggleStatus
\* (faulty variant: the toggled stop is rebuilt without its notes)
ToggledNoNotes(prev, id, forceStatus) ==
    [i \in 1..Len(prev) |->
        IF prev[i].id = id
        THEN [k \in (DOMAIN prev[i] \ {"notes"}) \cup {"status"} |->
                 IF k = "status" THEN NextStatus(prev[i].status, forceStatus)
                 ELSE prev[i][k]]
        ELSE prev[i]]
ToggledStops(prev, id, forceStatus) ==
    [i \in 1..Len(prev) |->
        IF prev[i].id = id
        THEN [k \in DOMAIN prev[i] \cup {"status"} |->
                 IF k = "status" THEN NextStatus(prev[i].status, forceStatus)
                 ELSE prev[i][k]]
        ELSE prev[i]]

ToggleStatus(id, forceStatus) ==
    /\ Idle
    /\ ops < MaxOps
    /\ update' = SetStops(ToggledStops(stops, id, forceStatus))
    /\ ops' = ops + 1
    /\ last' = [op |-> "toggle", n |-> Len(stops), id |-> id,
                forceStatus |-> forceStatus, reset |-> FALSE]
    /\ UNCHANGED <<stops, effectDue, pc, error, storage, tipVars, nextId, settled>>

DeleteStop(id) ==
    /\ Idle
    /\ ops < MaxOps
    /\ update' = SetStops(FilterOutId(stops, id))
    /\ ops' = ops + 1
    /\ last' = [op |-> "delete", n |-> Len(stops), id |-> id,
                forceStatus |-> "none", reset |-> FALSE]
    /\ UNCHANGED <<stops, effectDue, pc, error, storage, tipVars, nextId, settled>>

\* ------------------------------------------------------------------------
\* Derived views of a render
\* ------------------------------------------------------------------------
\* [...stops].sort(compareAsc on dateTime)
SortedStops == SortStops(stops)

\* Array.prototype.find: the first element that passes, or undefined
\* (faulty variant: a skipped stop counts as still to do)
RECURSIVE FindNotVisited(_)
FindNotVisited(list) ==
    IF list = <<>> THEN [found |-> FALSE]
    ELSE IF Head(list).status # "visited" THEN [found |-> TRUE, stop |-> Head(list)]
    ELSE FindNotVisited(Tail(list))
RECURSIVE FindPlanned(_)
FindPlanned(list) ==
    IF list = <<>> THEN [found |-> FALSE]
    ELSE IF Head(list).status = "planned" THEN [found |-> TRUE, stop |-> Head(list)]
    ELSE FindPlanned(Tail(list))

\* sortedStops.find(s => s.status === 'planned')
NextStop == FindPlanned(SortedStops)

\* stop.cost || 0
CostOrZero(stop) ==
    IF "cost" \notin DOMAIN stop THEN 0
    ELSE IF stop.cost = 0 THEN 0 ELSE stop.cost

\* stops.reduce((acc, stop) => acc + (stop.cost || 0), 0)
\* (faulty variant: skipped stops are not counted)
RECURSIVE TotalCostNotSkipped(_)
TotalCostNotSkipped(list) ==
    IF list = <<>> THEN 0
    ELSE TotalCostNotSkipped(SubSeq(list, 1, Len(list) - 1))
            + (IF list[Len(list)].status = "skipped" THEN 0 ELSE CostOrZero(list[Len(list)]))
RECURSIVE TotalCostOf(_)
TotalCostOf(list) ==
    IF list = <<>> THEN 0
    ELSE TotalCostOf(SubSeq(list, 1, Len(list) - 1)) + CostOrZero(list[Len(list)])

TotalCost == TotalCostOf(stops)

\* the ids the user can click on, and one that matches no stop
TargetIds == {stops[i].id : i \in 1..Len(stops)} \cup {UnknownId}

Next ==
    \/ LoadData
    \/ SaveEffect
    \/ Render
    \/ \E form \in Forms : AddStop(form)
    \/ \E id \in TargetIds, f \in StopStatus \cup {"none"} : ToggleStatus(id, f)
    \/ \E id \in TargetIds : DeleteStop(id)
    \/ \E i \in 1..Len(inFlight), outcome \in {"text", "empty", "error"} : TipsSettle(i, outcome)
    \/ ViewTips

Spec == Init /\ [][Next]_vars

\* ------------------------------------------------------------------------
\* Properties
\* ------------------------------------------------------------------------
\* the state right after a handler returned: its setStops is queued, stops
\* still holds the collection the handler found
AfterHandler(op) == pc = "ready" /\ last.op = op /\ ~last.reset /\ update.queued

StopIds(list) == {list[i].id : i \in 1..Len(list)}

\* C1: an addStop on a collection of exactly 10 stops ends, once the
\* size-cap effect has run and its change is rendered, with an empty
\* collection: not 11 stops, not the 10 earlier ones, not the new one.
C1_CapacityReset ==
    (Idle /\ last.op = "add" /\ last.n = MaxStops) => (last.reset /\ stops = <<>>)

C1_Witness == Idle /\ last.op = "add" /\ last.n = MaxStops /\ last.reset

\* C2: after a capacity reset, once all effects it triggered have run,
\* storage holds no entry under the key, until the next mutation.
C2_StorageErased == (Idle /\ last.reset) => storage = Absent

\* C3: whenever the size-cap effect has run for the latest change, the
\* collection holds at most 10 stops, also after loading more than 10.
C3_AtMostTen == Idle => Len(stops) <= MaxStops

C3_Witness == Idle /\ last.op = "none" /\ last.reset /\ Len(stops) <= MaxStops

\* C4: the load step on a missing or unparseable record ends with an empty
\* collection and raises no error.
C4_LoadTolerant ==
    [][(pc = "mount" /\ (storage.kind = "absent" \/ ~storage.wellFormed))
        => (pc' = "ready" /\ error' = "" /\ stops' = <<>> /\ ~update'.queued)]_vars

\* C5: after an addStop, toggleStatus or deleteStop that leaves at most 10
\* stops, once the save effect has run the stored record reads back as the
\* in-memory collection: same stops, same order, same field values.
C5_WrittenBack ==
    (Idle /\ last.op \in {"add", "toggle", "delete"} /\ ~last.reset)
        => /\ storage.kind = "text"
           /\ storage.wellFormed
           /\ JsonParse(storage) = stops

C5_Witness ==
    /\ Idle /\ last.op = "delete" /\ ~last.reset /\ ops = MaxOps
    /\ Len(stops) > 0
    /\ storage.kind = "text" /\ storage.wellFormed /\ JsonParse(storage) = stops

\* C6: toggleStatus on an existing stop sets the forced status when one is
\* given (planned, visited or skipped); unforced, visited becomes planned and
\* planned and skipped become visited, so two unforced toggles from planned
\* come back to planned.
ToggleTable(status) ==
    CASE status = "planned" -> "visited"
      [] status = "skipped" -> "visited"
      [] status = "visited" -> "planned"

C6_ToggleResult ==
    AfterHandler("toggle") =>
        /\ Len(update.value) = Len(stops)
        /\ \A i \in 1..Len(stops) :
              stops[i].id = last.id =>
                 update.value[i].status =
                    (IF last.forceStatus \in StopStatus THEN last.forceStatus
                     ELSE ToggleTable(stops[i].status))
        /\ ToggleTable(ToggleTable("planned")) = "planned"

C6_Witness ==
    /\ AfterHandler("toggle")
    /\ last.forceStatus = "none"
    /\ \E i \in 1..Len(stops) :
          /\ stops[i].id = last.id
          /\ stops[i].status = "skipped"
          /\ update.value[i].status = "visited"

\* C7: toggleStatus and deleteStop with an id that matches no stop raise no
\* error and leave the collection as it was: same stops, same order, same
\* field values.
C7_UnknownIdNoOp ==
    ((AfterHandler("toggle") \/ AfterHandler("delete")) /\ last.id \notin StopIds(stops))
        => (update.value = stops /\ error = "")

C7_Witness ==
    /\ AfterHandler("delete")
    /\ last.id \notin StopIds(stops)
    /\ Len(stops) > 1
    /\ update.value = stops

\* C8: toggleStatus changes nothing but the status of the stop whose id
\* matches: the other stops, the other fields of that stop, and the number
\* and order of the stops stay as they were.
C8_ToggleFrame ==
    AfterHandler("toggle") =>
        /\ Len(update.value) = Len(stops)
        /\ \A i \in 1..Len(stops) :
              IF stops[i].id = last.id
              THEN /\ DOMAIN update.value[i] = DOMAIN stops[i]
                   /\ \A k \in DOMAIN stops[i] \ {"status"} :
                         update.value[i][k] = stops[i][k]
              ELSE update.value[i] = stops[i]

C8_Witness ==
    /\ AfterHandler("toggle")
    /\ Len(stops) > 1
    /\ \E i \in 1..Len(stops) :
          /\ stops[i].id = last.id
          /\ update.value[i].status # stops[i].status

\* C9: deleteStop removes the stop with the matching id and nothing else:
\* the remaining stops keep all their fields, order included, and their
\* relative order.
KeptIndexes == {i \in 1..Len(stops) : stops[i].id # last.id}

C9_DeleteFrame ==
    AfterHandler("delete") =>
        /\ Len(update.value) = Cardinality(KeptIndexes)
        /\ \A i \in KeptIndexes :
              update.value[Cardinality({m \in KeptIndexes : m <= i})] = stops[i]
        /\ (last.id \in StopIds(stops)) => Len(update.value) = Len(stops) - 1

C9_Witness ==
    /\ AfterHandler("delete")
    /\ Len(stops) > 2
    /\ stops[1].id = last.id
    /\ update.value[1] = stops[2]
    /\ update.value[1].order = 1

\* C10: addStop on n < 10 stops gives n + 1 stops: every earlier stop
\* unchanged, plus one new stop with status planned and order n.
C10_AddResult ==
    (AfterHandler("add") /\ last.n < MaxStops) =>
        /\ last.n = Len(stops)
        /\ Len(update.value) = last.n + 1
        /\ \A i \in 1..Len(stops) : \E j \in 1..Len(update.value) : update.value[j] = stops[i]
        /\ \E j \in 1..Len(update.value) :
              /\ update.value[j].id = last.id
              /\ update.value[j].status = "planned"
              /\ update.value[j].order = last.n
              /\ \A i \in 1..Len(stops) : stops[i].id # last.id

C10_Witness ==
    /\ AfterHandler("add")
    /\ last.n = MaxStops - 1
    /\ \E j \in 1..Len(update.value) :
          update.value[j].id = last.id /\ update.value[j].order = MaxStops - 1

\* C11: after addStop calls with distinct dateTime values, in any insertion
\* order, sortedStops holds exactly the stops of the collection, ordered by
\* dateTime ascending.
DistinctDateTimes(list) ==
    \A i, j \in 1..Len(list) : i # j => list[i].dateTime # list[j].dateTime

Occurrences(list, s) == Cardinality({i \in 1..Len(list) : list[i] = s})

C11_AddThenSort ==
    LET sorted == SortedStops
        at == [i \in 1..Len(sorted) |-> ParseISO(sorted[i].dateTime)]
    IN /\ Len(sorted) = Len(stops)
       /\ \A i \in 1..Len(stops) :
             Occurrences(sorted, stops[i]) = Occurrences(stops, stops[i])
       /\ \A i \in 1..(Len(sorted) - 1) : at[i] <= at[i + 1]
       /\ DistinctDateTimes(stops) =>
             \A i \in 1..(Len(sorted) - 1) : at[i] < at[i + 1]

\* two stops added to an empty collection, the later date first
C11_Witness ==
    /\ Idle /\ last.op = "add" /\ last.n = 1
    /\ Len(stops) = 2
    /\ DistinctDateTimes(stops)
    /\ SortedStops[1].id = <<"uuid", 2>>
    /\ SortedStops[2].id = <<"uuid", 1>>

\* C12: nextStop is the chronologically first stop of sortedStops whose
\* status is planned, whatever visited and skipped stops come before it, and
\* it is absent exactly when no stop is planned.
\* (next is NextStop, taken from the sorted view computed once)
C12_NextStop ==
    LET sorted == SortedStops
        next == FindPlanned(sorted)
        planned == {i \in 1..Len(sorted) : sorted[i].status = "planned"}
    IN /\ next.found <=> (\E i \in 1..Len(stops) : stops[i].status = "planned")
       /\ next.found =>
             \E i \in planned :
                /\ next.stop = sorted[i]
                /\ \A j \in planned : i <= j

C12_Witness ==
    /\ Idle
    /\ Len(stops) >= 4
    /\ LET sorted == SortedStops
           next == NextStop
       IN /\ sorted[1].status = "visited"
          /\ sorted[2].status = "visited"
          /\ sorted[3].status = "skipped"
          /\ next.found
          /\ next.stop = sorted[4]

\* C13: totalCost is the sum of cost over all stops whatever their status,
\* an absent cost counting as 0, so a toggleStatus call leaves it unchanged.
RECURSIVE SumOfCosts(_, _)
SumOfCosts(list, indexes) ==
    IF indexes = {} THEN 0
    ELSE LET i == CHOOSE x \in indexes : TRUE
         IN (IF "cost" \in DOMAIN list[i] THEN list[i].cost ELSE 0)
               + SumOfCosts(list, indexes \ {i})

C13_TotalCost ==
    /\ TotalCost = SumOfCosts(stops, 1..Len(stops))
    /\ AfterHandler("toggle") => TotalCostOf(update.value) = TotalCost

C13_Witness ==
    /\ AfterHandler("toggle")
    /\ \E i \in 1..Len(stops) :
          /\ stops[i].status # "skipped"
          /\ update.value[i].status = "skipped"
          /\ CostOrZero(stops[i]) > 0
    /\ \E i \in 1..Len(stops) : "cost" \notin DOMAIN stops[i]
    /\ TotalCost > 0

\* C14: the tip flow on zero stops issues no advisory request, does not set
\* the loading flag, and sets the tip text to the fixed placeholder.
\* (generateTips gets an empty list when the stored record is an empty array.)
LoadedEmpty ==
    /\ pc = "ready" /\ last.op = "none" /\ ~last.reset
    /\ update.queued /\ update.value = <<>>

C14_EmptyShortcut ==
    /\ \A i \in 1..Len(inFlight) : inFlight[i] # <<>>
    /\ LoadedEmpty => (aiTips = Placeholder /\ inFlight = <<>> /\ ~isLoadingTips)

C14_Witness == LoadedEmpty /\ aiTips = Placeholder /\ settled.count = 0

\* C15: each addStop issues one advisory request that carries the updated
\* full list (the earlier stops and the new one), and nothing waits for it:
\* addStop, toggleStatus and deleteStop stay enabled whatever the number of
\* requests in flight.
C15_FireAndForget ==
    /\ [][(last'.op = "add" /\ ops' = ops + 1) =>
            /\ inFlight' = Append(inFlight, StopNames(update'.value))
            /\ Len(update'.value) = Len(stops) + 1
            /\ \A i \in 1..Len(stops) :
                  \E j \in 1..Len(update'.value) : update'.value[j] = stops[i]]_vars
    /\ []((Idle /\ ops < MaxOps) =>
            /\ ENABLED (\E form \in Forms : AddStop(form))
            /\ \A id \in TargetIds :
                  /\ ENABLED ToggleStatus(id, "none")
                  /\ ENABLED DeleteStop(id))

\* a delete takes effect with two requests pending
C15_Witness ==
    /\ AfterHandler("delete")
    /\ Len(inFlight) = 2
    /\ Len(update.value) = Len(stops) - 1

\* C16: overlapping advisory requests are not sequenced: whatever the order
\* of issue, the tip text left when all have completed is the outcome of the
\* request that completed last.
OutcomeText(names, outcome) ==
    IF outcome = "text" THEN [text |-> "tips", about |-> names]
    ELSE IF outcome = "empty" THEN EmptyTextFallback
    ELSE ErrorFallback

C16_LastToCompleteWins ==
    (inFlight = <<>> /\ settled.count > 0) =>
        aiTips = OutcomeText(settled.names, settled.outcome)

\* all done, the request issued first completed last and its text stands
C16_Witness ==
    /\ inFlight = <<>>
    /\ settled.count >= 2
    /\ settled.overtook
    /\ settled.outcome = "text"
    /\ Len(settled.names) < Len(stops)
    /\ aiTips = [text |-> "tips", about |-> settled.names]

\* C17: a failed advisory request sets the tip text to the fixed fallback,
\* raises no error and leaves the stop collection alone; its completion
\* clears the loading flag, on failure as on success.
C17_FailureFallback ==
    [][(settled'.count = settled.count + 1) =>
         /\ settled'.outcome = "error" => aiTips' = ErrorFallback
         /\ isLoadingTips' = FALSE
         /\ error' = error /\ pc' = pc
         /\ stops' = stops /\ update' = update /\ storage' = storage]_vars

C17_Witness ==
    /\ settled.outcome = "error"
    /\ aiTips = ErrorFallback
    /\ ~isLoadingTips
    /\ inFlight = <<>>
    /\ Len(stops) > 0
    /\ pc = "ready" /\ error = ""

\* C18: the ids of the stops of the collection are pairwise distinct, in the
\* rendered collection and in the one queued for the next render.
DistinctIds(list) == \A i, j \in 1..Len(list) : i # j => list[i].id # list[j].id

C18_UniqueIds ==
    /\ DistinctIds(stops)
    /\ update.queued => DistinctIds(update.value)

\* the same form submitted twice gives two stops that differ in id
C18_Witness ==
    /\ Idle /\ last.op = "add" /\ last.n = 1
    /\ Len(stops) = 2
    /\ stops[1].title = stops[2].title
    /\ stops[1].dateTime = stops[2].dateTime
    /\ stops[1].id # stops[2].id

\* C19: every stop created by addStop has a numeric cost that is not below
\* 0: an absent or non-numeric input gives 0, no numeric input gives less.
C19_CostNonNegative ==
    AfterHandler("add") =>
        \A j \in 1..Len(update.value) :
            update.value[j].id = last.id =>
                ("cost" \in DOMAIN update.value[j] /\ update.value[j].cost >= 0)

\* C20: the loading flag is set in every state in which an advisory request
\* is in flight, also when requests overlap.
C20_LoadingWhileInFlight == inFlight # <<>> => isLoadingTips

====
